---- MODULE Spec2Model ----
(***************************************************************************)
(* Model of scripts/accuracy/eval.py: the evaluation pipeline of the       *)
(* Shughni morphological analyzer (parse_apertium, hfst_lookup,            *)
(* make_latin, the accuracy functions, compare and main).                  *)
(*                                                                         *)
(* A Python str is modelled as a sequence of one-character strings, so     *)
(* that the regular expressions, str.split, str.replace and the `in` test  *)
(* are computed character by character, as the code computes them.         *)
(*                                                                         *)
(* A value the code computes once and reads several times is passed on as  *)
(* an operator argument (f_at(text, i, RunEnd(...))) instead of being      *)
(* named in a LET: TLC's coverage expands a LET name at every use.         *)
(***************************************************************************)
EXTENDS Naturals, Sequences, FiniteSets

VARIABLES
    pc,              \* where main is
    args,            \* the parsed command line: details_dir and hfst_translit given or not
    wordforms,       \* first column of the corpus
    reference,       \* second column of the corpus
    stdout,          \* output of the last hfst-lookup process
    predicted,       \* the ParsedItems
    results,         \* <<>>, or <<the dict compare returned>>
    logs,            \* the files of the details directory
    analyzer_calls,  \* hfst-lookup processes started on the analyzer
    translit_calls,  \* hfst-lookup processes started on the transliterator
    translit_batch,  \* the input_strings of the transliterator lookup
    error            \* the exception that ended the run, or ""

vars == <<pc, args, wordforms, reference, stdout, predicted, results, logs,
          analyzer_calls, translit_calls, translit_batch, error>>

(***************************************************************************)
(* Bounds of the model.                                                    *)
(***************************************************************************)
\* largest corpus, and largest number of tokens the analyzer answers with
MaxItems == 2
\* longest raw text handed to parse_apertium in SpecParse
MaxTextLen == 7

(***************************************************************************)
(* String primitives (Python str methods and re character classes).        *)
(***************************************************************************)
\* `c in s` for a one-character c
Contains(s, c) == \E i \in 1..Len(s) : s[i] = c

\* index just after the greedy run, from i, of characters outside excl:
\* what [^...]+ consumes from position i
RECURSIVE RunEnd(_, _, _)
RunEnd(text, i, excl) ==
    IF i <= Len(text) /\ text[i] \notin excl
    THEN RunEnd(text, i + 1, excl)
    ELSE i

\* s.startswith(old, i) with 1-based i
StartsWithAt(s, old, i) ==
    /\ i + Len(old) - 1 <= Len(s)
    /\ \A k \in 1..Len(old) : s[i + k - 1] = old[k]

\* str.replace(old, new) for a non-empty old: left to right, non-overlapping,
\* every occurrence
RECURSIVE replace_from(_, _, _, _)
replace_from(s, old, new, i) ==
    IF i > Len(s) THEN <<>>
    ELSE IF StartsWithAt(s, old, i)
         THEN new \o replace_from(s, old, new, i + Len(old))
         ELSE <<s[i]>> \o replace_from(s, old, new, i + 1)

str_replace(s, old, new) == replace_from(s, old, new, 1)

\* str.split(sep) for a one-character sep
RECURSIVE split_from(_, _, _, _)
split_from(s, sep, start, i) ==
    IF i > Len(s) THEN <<SubSeq(s, start, Len(s))>>
    ELSE IF s[i] = sep
         THEN <<SubSeq(s, start, i - 1)>> \o split_from(s, sep, i + 1, i + 1)
         ELSE split_from(s, sep, start, i + 1)

split(s, sep) == split_from(s, sep, 1, 1)

\* sep.join(parts)
RECURSIVE join(_, _)
join(sep, parts) ==
    IF parts = <<>> THEN <<>>
    ELSE IF Len(parts) = 1 THEN parts[1]
         ELSE parts[1] \o sep \o join(sep, Tail(parts))

(***************************************************************************)
(* parse_apertium                                                          *)
(***************************************************************************)
\* dataclass ParsedItem
ParsedItem(input_str, out_variants) ==
    [input_str |-> input_str, out_variants |-> out_variants]

\* ParsedItem.variants()
variants(item) == join(<<"/">>, item.out_variants)

\* A match of \^([^\^\$]+)\$ that starts at i, e being where the greedy class
\* stops: the index of the closing '$', or 0 when there is no match.  The
\* class excludes '$', so a shorter run is never followed by '$': no
\* backtracking succeeds.
apertium_match_end(text, i, e) ==
    IF e > i + 1 /\ e <= Len(text) /\ text[e] = "$" THEN e ELSE 0

apertium_match(text, i) ==
    IF text[i] # "^" THEN 0
    ELSE apertium_match_end(text, i, RunEnd(text, i + 1, {"^", "$"}))

\* apertium_item keeping the input among the variants
apertium_item_whole(apertium) ==
    ParsedItem(Head(split(apertium, "/")), split(apertium, "/"))

\* the body of the for loop: one ParsedItem from group 1 of a match
apertium_item(apertium) ==
    LET pieces == split(apertium, "/")
    IN  ParsedItem(Head(pieces), Tail(pieces))

\* re.finditer: leftmost matches, scanning on after each one
RECURSIVE parse_from(_, _)
parse_scan(text, i, e) ==
    IF e = 0 THEN parse_from(text, i + 1)
    ELSE <<apertium_item(SubSeq(text, i + 1, e - 1))>> \o parse_from(text, e + 1)

parse_from(text, i) ==
    IF i > Len(text) THEN <<>>
    ELSE parse_scan(text, i, apertium_match(text, i))

parse_apertium(text) == parse_from(text, 1)

(***************************************************************************)
(* Stem transliteration                                                    *)
(***************************************************************************)
\* A match of >?([^<>]+)< that starts at i: <<g, e>>, group 1 being
\* tagged[g..e-1], or <<0, 0>>.  Dropping the optional '>' or shortening the
\* greedy run never lets the rest match, so one path is tried.
stem_group(tagged, g, e) ==
    IF e > g /\ e <= Len(tagged) /\ tagged[e] = "<" THEN <<g, e>> ELSE <<0, 0>>

stem_group_from(tagged, g) == stem_group(tagged, g, RunEnd(tagged, g, {"<", ">"}))

stem_match_at(tagged, i) ==
    stem_group_from(tagged, IF tagged[i] = ">" THEN i + 1 ELSE i)

\* the leftmost match from i on, or <<0, 0>>: re.findall(...)[0]
RECURSIVE first_stem_match(_, _)
first_stem_or_next(tagged, i, m) ==
    IF m[1] # 0 THEN m ELSE first_stem_match(tagged, i + 1)

first_stem_match(tagged, i) ==
    IF i > Len(tagged) THEN <<0, 0>>
    ELSE first_stem_or_next(tagged, i, stem_match_at(tagged, i))

\* group 1 of a match m of tagged; raised is the IndexError of [0] on an
\* empty findall
group_of(tagged, m) ==
    IF m[1] = 0 THEN [raised |-> TRUE, value |-> <<>>]
    ELSE [raised |-> FALSE, value |-> SubSeq(tagged, m[1], m[2] - 1)]

get_stem(tagged) == group_of(tagged, first_stem_match(tagged, 1))

\* `'*' in it.out_variants[0]` (callers have checked the list is not empty)
is_unknown(item) == Contains(item.out_variants[1], "*")

(***************************************************************************)
(* Custom accuracy functions: "True", "False", or "IndexError" when the    *)
(* [0] of an empty findall raises.                                         *)
(***************************************************************************)
PyBool(b) == IF b THEN "True" ELSE "False"

match_exact(tagged1, tagged2) == PyBool(tagged1 = tagged2)

\* stem1 == stem2, and likewise pos1 == pos2
same_group(g1, g2) ==
    IF g1.raised \/ g2.raised THEN "IndexError" ELSE PyBool(g1.value = g2.value)

match_stem(tagged1, tagged2) == same_group(get_stem(tagged1), get_stem(tagged2))

\* A match of [^<>\n]+<([^<>]+)> that starts at i: <<g, e>>, group 1 being
\* tagged[g..e-1], or <<0, 0>>
pos_group(tagged, i, e1, e2) ==
    IF /\ e1 > i /\ e1 <= Len(tagged) /\ tagged[e1] = "<"
       /\ e2 > e1 + 1 /\ e2 <= Len(tagged) /\ tagged[e2] = ">"
    THEN <<e1 + 1, e2>> ELSE <<0, 0>>

pos_group_from(tagged, i, e1) ==
    pos_group(tagged, i, e1, RunEnd(tagged, e1 + 1, {"<", ">"}))

pos_match_at(tagged, i) ==
    pos_group_from(tagged, i, RunEnd(tagged, i, {"<", ">", "\n"}))

RECURSIVE first_pos_match(_, _)
first_pos_or_next(tagged, i, m) ==
    IF m[1] # 0 THEN m ELSE first_pos_match(tagged, i + 1)

first_pos_match(tagged, i) ==
    IF i > Len(tagged) THEN <<0, 0>>
    ELSE first_pos_or_next(tagged, i, pos_match_at(tagged, i))

\* re.findall(pos_pattern, tagged)[0]
get_pos(tagged) == group_of(tagged, first_pos_match(tagged, 1))

match_pos(tagged1, tagged2) == same_group(get_pos(tagged1), get_pos(tagged2))

\* `a and b`, b being evaluated only when a is True
py_and(a, b) == IF a = "True" THEN b ELSE a

match_stem_and_pos(tagged1, tagged2) ==
    py_and(match_stem(tagged1, tagged2), match_pos(tagged1, tagged2))

\* set(re.findall(r'<[^<>]+>', tagged))
RECURSIVE tags_from(_, _)
tags_scan(tagged, i, e) ==
    IF tagged[i] = "<" /\ e > i + 1 /\ e <= Len(tagged) /\ tagged[e] = ">"
    THEN {SubSeq(tagged, i, e)} \cup tags_from(tagged, e + 1)
    ELSE tags_from(tagged, i + 1)

tags_from(tagged, i) ==
    IF i > Len(tagged) THEN {}
    ELSE tags_scan(tagged, i, RunEnd(tagged, i + 1, {"<", ">"}))

\* match_unordered without the comparison of the stems
match_unordered_tags_only(tagged1, tagged2) ==
    PyBool(tags_from(tagged1, 1) = tags_from(tagged2, 1))

match_unordered(tagged1, tagged2) ==
    py_and(match_stem(tagged1, tagged2),
           PyBool(tags_from(tagged1, 1) = tags_from(tagged2, 1)))

\* accuracy_funcs.keys(), in insertion order
accuracy_names ==
    <<"exact_match", "stem_match", "pos_match", "stem_and_pos_match",
      "unordered_tags_match">>

AccTypes == {accuracy_names[k] : k \in 1..Len(accuracy_names)}

\* accuracy_funcs[acc_type](ref, pred_var)
accuracy_funcs(acc_type, ref, pred_var) ==
    CASE acc_type = "exact_match" -> match_exact(ref, pred_var)
      [] acc_type = "stem_match" -> match_stem(ref, pred_var)
      [] acc_type = "pos_match" -> match_pos(ref, pred_var)
      [] acc_type = "stem_and_pos_match" -> match_stem_and_pos(ref, pred_var)
      [] acc_type = "unordered_tags_match" -> match_unordered(ref, pred_var)

(***************************************************************************)
(* hfst_lookup and make_latin                                              *)
(***************************************************************************)
\* What the environment gives one hfst_lookup call: whether hfst_file is a
\* file, and the return code and the output of the hfst-lookup process.
ProcOutcome(is_file, returncode, out) ==
    [is_file |-> is_file, returncode |-> returncode, stdout |-> out]

\* hfst_lookup given the outcome of its process: error is "" on return
hfst_lookup(outcome) ==
    IF ~outcome.is_file THEN [error |-> "FileNotFoundError", items |-> <<>>]
    ELSE IF outcome.returncode # 0 THEN [error |-> "HfstException", items |-> <<>>]
    ELSE [error |-> "", items |-> parse_apertium(outcome.stdout)]

\* A dict, kept as its keys in insertion order and its values.
EmptyDict == [keys |-> <<>>, val |-> <<>>]

HasKey(d, key) == \E k \in 1..Len(d.keys) : d.keys[k] = key

\* d[key] = value
dict_set(d, key, value) ==
    [keys |-> IF HasKey(d, key) THEN d.keys ELSE Append(d.keys, key),
     val  |-> [x \in (DOMAIN d.val) \cup {key} |->
                  IF x = key THEN value ELSE d.val[x]]]

\* the gathering loop on a list in place of the dict: a stem is kept once
\* per occurrence
gather_append(d, key) ==
    [keys |-> Append(d.keys, key),
     val  |-> [x \in (DOMAIN d.val) \cup {key} |-> <<>>]]

\* cyr2lat[stem] = [] in the gathering loop
gather_set(d, key) == dict_set(d, key, <<>>)

\* for var in it.out_variants: cyr2lat[get_stem(var)] = []
RECURSIVE gather_variants(_, _, _)
gather_variant(out_variants, j, g, stem) ==
    IF stem.raised THEN [g EXCEPT !.raised = TRUE]
    ELSE gather_variants(out_variants, j + 1,
             [g EXCEPT !.dict = gather_set(@, stem.value)])

gather_variants(out_variants, j, g) ==
    IF j > Len(out_variants) THEN g
    ELSE gather_variant(out_variants, j, g, get_stem(out_variants[j]))

\* the first loop of make_latin; out_variants[0] of an empty list raises
RECURSIVE gather_stems(_, _, _)
gather_stems(items, i, g) ==
    IF i > Len(items) \/ g.raised THEN g
    ELSE IF items[i].out_variants = <<>> THEN [g EXCEPT !.raised = TRUE]
    ELSE IF is_unknown(items[i]) THEN gather_stems(items, i + 1, g)
    ELSE gather_stems(items, i + 1, gather_variants(items[i].out_variants, 1, g))

\* for translit in hfst_lookup(...): cyr2lat[translit.input_str] = translit.out_variants
RECURSIVE store_translit(_, _, _)
store_translit(toks, k, d) ==
    IF k > Len(toks) THEN d
    ELSE store_translit(toks, k + 1,
             dict_set(d, toks[k].input_str, toks[k].out_variants))

\* for lat_stem in cyr2lat[stem]: new_variants.append(var.replace(stem, lat_stem))
replace_stem(var, stem, lats) ==
    [k \in 1..Len(lats) |-> str_replace(var, stem, lats[k])]

lat_forms(d, stem) == d.val[stem]

lat_variants_of(var, d, stem) == replace_stem(var, stem, lat_forms(d, stem))

lat_variants(var, d) == lat_variants_of(var, d, get_stem(var).value)

RECURSIVE new_variants(_, _, _)
new_variants(out_variants, j, d) ==
    IF j > Len(out_variants) THEN <<>>
    ELSE lat_variants(out_variants[j], d) \o new_variants(out_variants, j + 1, d)

\* the last loop of make_latin
replace_stems(items, d) ==
    [i \in 1..Len(items) |->
        IF is_unknown(items[i]) THEN items[i]
        ELSE [items[i] EXCEPT !.out_variants = new_variants(@, 1, d)]]

(***************************************************************************)
(* Output                                                                  *)
(***************************************************************************)
\* the names log_details is called with
LogNames == {"unknown"} \cup AccTypes

\* log_details: files is the details directory, one list of rows per file
\* (out_file names the file out_file + '.csv'); dir is FALSE for None
log_details(dir, files, out_file, wordform, ref, real_output, result) ==
    IF ~dir THEN files
    ELSE [files EXCEPT ![out_file] = Append(@, <<wordform, ref, real_output, result>>)]

(***************************************************************************)
(* Evaluation                                                              *)
(***************************************************************************)
\* tag_aliases.items(), in insertion order
tag_aliases ==
    << << <<"<", "l", "a", "t", ">">>, <<"<", "d", "a", "t", ">">> >>,
       << <<"<", "o", ">">>,           <<"<", "o", "b", "l", ">">> >> >>

RECURSIVE apply_aliases(_, _)
apply_aliases(t, k) ==
    IF k > Len(tag_aliases) THEN t
    ELSE apply_aliases(str_replace(t, tag_aliases[k][1], tag_aliases[k][2]), k + 1)

replace_aliases(tagged) == [i \in 1..Len(tagged) |-> apply_aliases(tagged[i], 1)]

\* for pred_var in pred.out_variants: if acc_funcs[acc_type](ref, pred_var): ... break
RECURSIVE scan_variants(_, _, _, _)
\* scan_variant giving up after the first variant
scan_variant_first_only(acc_type, ref, out_variants, j, r) ==
    IF r = "IndexError" THEN "raise"
    ELSE IF r = "True" THEN "match"
    ELSE "nomatch"

scan_variant(acc_type, ref, out_variants, j, r) ==
    IF r = "IndexError" THEN "raise"
    ELSE IF r = "True" THEN "match"
    ELSE scan_variants(acc_type, ref, out_variants, j + 1)

scan_variants(acc_type, ref, out_variants, j) ==
    IF j > Len(out_variants) THEN "nomatch"
    ELSE scan_variant(acc_type, ref, out_variants, j,
                      accuracy_funcs(acc_type, ref, out_variants[j]))

\* what a match adds to acc_results[acc_type]['correct']
correct_step(n) == n + 1

\* for acc_type in acc_funcs.keys(): the body for one item, r being how the
\* loop over the variants ended.  is_correct is the local set before the
\* loop over the metrics, at line 238, and never reset in it.
RECURSIVE metric_loop(_, _, _, _, _, _)
metric_step(ref, pred, dir, k, is_correct, st1, acc_type, r) ==
    IF r = "raise" THEN [st1 EXCEPT !.raised = TRUE]
    ELSE IF r = "match"
    THEN metric_loop(ref, pred, dir, k + 1, TRUE,
             [st1 EXCEPT !.acc_results[acc_type].correct = correct_step(@),
                         !.files = log_details(dir, @, acc_type,
                                       pred.input_str, ref, variants(pred), "CORRECT")])
    ELSE metric_loop(ref, pred, dir, k + 1, is_correct,
             IF ~is_correct
             THEN [st1 EXCEPT !.files = log_details(dir, @, acc_type,
                                       pred.input_str, ref, variants(pred), "FAIL")]
             ELSE st1)

metric_loop(ref, pred, dir, k, is_correct, st) ==
    IF k > Len(accuracy_names) THEN st
    ELSE metric_step(ref, pred, dir, k, is_correct,
             [st EXCEPT !.acc_results[accuracy_names[k]].recognized = @ + 1],
             accuracy_names[k],
             scan_variants(accuracy_names[k], ref, pred.out_variants, 1))

\* recognized_item without `recognized += 1`
recognized_item_uncounted(ref, pred, dir, st) ==
    metric_loop(ref, pred, dir, 1, FALSE, st)

\* the branch of the item loop for an item that is not unknown
recognized_item(ref, pred, dir, st) ==
    metric_loop(ref, pred, dir, 1, FALSE, [st EXCEPT !.recognized = @ + 1])

\* for ref, pred in zip(reference, predicted)
RECURSIVE item_loop(_, _, _, _, _)
item_loop(refs, preds, dir, i, st) ==
    IF i > Len(refs) \/ st.raised THEN st
    ELSE IF preds[i].out_variants = <<>> THEN [st EXCEPT !.raised = TRUE]
    ELSE IF is_unknown(preds[i])
    THEN item_loop(refs, preds, dir, i + 1,
             [st EXCEPT !.files = log_details(dir, @, "unknown",
                            preds[i].input_str, refs[i], variants(preds[i]), "UNKNOWN")])
    ELSE item_loop(refs, preds, dir, i + 1, recognized_item(refs[i], preds[i], dir, st))

\* a fraction correct/recognized
Ratio(num, den) == [num |-> num, den |-> den]

\* evaluating fractional counts: 0 when nothing was recognized
fraction(counts) ==
    IF counts.recognized = 0 THEN Ratio(0, 1)
    ELSE Ratio(counts.correct, counts.recognized)

\* the end of compare: the dict it returns
compare_result(total, st) ==
    IF st.raised
    THEN [error |-> "IndexError", files |-> st.files, result |-> <<>>]
    ELSE [error |-> "", files |-> st.files,
          result |-> << [total |-> total,
                         recognized |-> st.recognized,
                         accuracy |-> [m \in AccTypes |->
                             [correct |-> st.acc_results[m].correct,
                              recognized |-> st.acc_results[m].recognized,
                              acc |-> fraction(st.acc_results[m])]]] >>]

\* compare: error is "" on return, and files is the details directory after it
compare(refs, preds, dir, files) ==
    IF Len(refs) # Len(preds)
    THEN [error |-> "RuntimeError", files |-> files, result |-> <<>>]
    ELSE compare_result(Len(refs),
             item_loop(refs, preds, dir, 1,
                 [raised |-> FALSE, recognized |-> 0, files |-> files,
                  acc_results |-> [m \in AccTypes |->
                                      [correct |-> 0, recognized |-> 0]]]))

(***************************************************************************)
(* The inputs of a run: the corpus, and what the two hfst-lookup           *)
(* processes answer.                                                       *)
(***************************************************************************)
SeqsUpTo(S, n) == UNION {[1..k -> S] : k \in 0..n}

w == <<"w">>
a_n == <<"a", "<", "n", ">">>
a_n_o == <<"a", "<", "n", ">", "<", "o", ">">>
a_obl_n == <<"a", "<", "o", "b", "l", ">", "<", "n", ">">>
n_n == <<"n", "<", "n", ">">>
unknown_w == <<"*", "w">>
bare_a == <<"a">>

\* the rows read_csv / read_stdin return: (wordform, reference analysis)
CorpusRows == {<<w, a_n>>, <<w, a_n_o>>}

Corpora == SeqsUpTo(CorpusRows, MaxItems)

\* the lists of analyses the analyzer gives for one wordform
AnalyzerVariantLists ==
    { <<a_n>>, <<n_n, a_n>>, <<a_obl_n>>, <<unknown_w>>, <<bare_a>>, <<>> }

\* one token in the apertium convention: ^input/variant/variant$
apertium(item) ==
    <<"^">> \o join(<<"/">>, <<item.input_str>> \o item.out_variants) \o <<"$">>

\* the text hfst-lookup prints for a list of tokens, one per line
apertium_text(toks) == join(<<"\n">>, [k \in 1..Len(toks) |-> apertium(toks[k])])

\* what the analyzer process can answer
AnalyzerOutcomes ==
    { ProcOutcome(FALSE, 0, <<>>), ProcOutcome(TRUE, 1, <<>>) }
    \cup { ProcOutcome(TRUE, 0, apertium_text(toks)) :
             toks \in SeqsUpTo({ParsedItem(w, vl) : vl \in AnalyzerVariantLists},
                               MaxItems) }

\* two transliterations of a character
lat1(c) == IF c = "a" THEN "e" ELSE IF c = "n" THEN "m" ELSE c
lat2(c) == IF c = "a" THEN "i" ELSE IF c = "n" THEN "u" ELSE c
latin1(stem) == [k \in 1..Len(stem) |-> lat1(stem[k])]
latin2(stem) == [k \in 1..Len(stem) |-> lat2(stem[k])]

\* the ways the transliterator process answers a batch of stems
TranslitBehaviours ==
    {"one", "two", "unknown", "no_variants", "drop_last", "nonzero_exit", "no_file"}

translit_forms(behaviour, stem) ==
    CASE behaviour = "two" -> <<latin1(stem), latin2(stem)>>
      [] behaviour = "unknown" -> << <<"*">> \o stem >>
      [] behaviour = "no_variants" -> <<>>
      [] OTHER -> <<latin1(stem)>>

\* the stems the transliterator answers for
answered(behaviour, batch) ==
    IF behaviour = "drop_last" /\ batch # <<>>
    THEN SubSeq(batch, 1, Len(batch) - 1) ELSE batch

translit_tokens(behaviour, stems) ==
    [k \in 1..Len(stems) |-> ParsedItem(stems[k], translit_forms(behaviour, stems[k]))]

translit_outcome(behaviour, batch) ==
    ProcOutcome(behaviour # "no_file",
                IF behaviour = "nonzero_exit" THEN 1 ELSE 0,
                IF behaviour \in {"nonzero_exit", "no_file"} THEN <<>>
                ELSE apertium_text(translit_tokens(behaviour, answered(behaviour, batch))))

\* make_latin after the gathering loop, given the outcome of the lookup
make_latin_lookup(items, d, outcome, looked) ==
    IF looked.error # ""
    THEN [error |-> looked.error, items |-> items,
          calls |-> IF outcome.is_file THEN 1 ELSE 0,
          batch |-> d.keys, stdout |-> outcome.stdout]
    ELSE [error |-> "", calls |-> 1, batch |-> d.keys, stdout |-> outcome.stdout,
          items |-> replace_stems(items, store_translit(looked.items, 1, d))]

make_latin_batch(items, d, outcome) ==
    make_latin_lookup(items, d, outcome, hfst_lookup(outcome))

make_latin_gathered(items, behaviour, g) ==
    IF g.raised
    THEN [error |-> "IndexError", items |-> items, calls |-> 0,
          batch |-> <<>>, stdout |-> <<>>]
    ELSE make_latin_batch(items, g.dict, translit_outcome(behaviour, g.dict.keys))

\* make_latin(items, hfst), the transliterator answering as `behaviour` says:
\* error is "" on return; calls counts the hfst-lookup processes started and
\* batch is the list handed to hfst_lookup
make_latin(items, behaviour) ==
    make_latin_gathered(items, behaviour,
        gather_stems(items, 1, [raised |-> FALSE, dict |-> EmptyDict]))

(***************************************************************************)
(* main, one action per step                                               *)
(***************************************************************************)
Init ==
    /\ pc = "start"
    /\ args \in [details_dir : BOOLEAN, hfst_translit : BOOLEAN]
    /\ wordforms = <<>>
    /\ reference = <<>>
    /\ stdout = <<>>
    /\ predicted = <<>>
    /\ results = <<>>
    /\ logs = [f \in LogNames |-> <<>>]
    /\ analyzer_calls = 0
    /\ translit_calls = 0
    /\ translit_batch = <<>>
    /\ error = ""

\* read_stdin / read_csv return the two columns
ReadCorpus ==
    /\ pc = "start"
    /\ \E corpus \in Corpora :
          /\ wordforms' = [i \in 1..Len(corpus) |-> corpus[i][1]]
          /\ reference' = [i \in 1..Len(corpus) |-> corpus[i][2]]
    /\ pc' = "read"
    /\ UNCHANGED <<args, stdout, predicted, results, logs, analyzer_calls,
                   translit_calls, translit_batch, error>>

\* read_csv raises FileNotFoundError
ReadCorpusFails ==
    /\ pc = "start"
    /\ pc' = "aborted"
    /\ error' = "FileNotFoundError"
    /\ UNCHANGED <<args, wordforms, reference, stdout, predicted, results, logs,
                   analyzer_calls, translit_calls, translit_batch>>

\* replace_aliases(reference)
ReplaceAliases ==
    /\ pc = "read"
    /\ reference' = replace_aliases(reference)
    /\ pc' = "preprocessed"
    /\ UNCHANGED <<args, wordforms, stdout, predicted, results, logs,
                   analyzer_calls, translit_calls, translit_batch, error>>

\* predicted = hfst_lookup(args.hfst_analyzer, wordforms)
AnalyzerLookup ==
    /\ pc = "preprocessed"
    /\ \E outcome \in AnalyzerOutcomes :
          LET looked == hfst_lookup(outcome)
          IN  /\ stdout' = outcome.stdout
              /\ analyzer_calls' = IF outcome.is_file THEN analyzer_calls + 1
                                   ELSE analyzer_calls
              /\ predicted' = looked.items
              /\ error' = looked.error
              /\ pc' = IF looked.error = "" THEN "analyzed" ELSE "aborted"
    /\ UNCHANGED <<args, wordforms, reference, results, logs,
                   translit_calls, translit_batch>>

\* if args.hfst_translit: make_latin(predicted, hfst=args.hfst_translit)
MakeLatin ==
    /\ pc = "analyzed"
    /\ args.hfst_translit
    /\ \E behaviour \in TranslitBehaviours :
          LET r == make_latin(predicted, behaviour)
          IN  /\ predicted' = r.items
              /\ translit_calls' = translit_calls + r.calls
              /\ translit_batch' = r.batch
              /\ stdout' = IF r.calls = 0 THEN stdout ELSE r.stdout
              /\ error' = r.error
              /\ pc' = IF r.error = "" THEN "latin" ELSE "aborted"
    /\ UNCHANGED <<args, wordforms, reference, results, logs, analyzer_calls>>

\* results = compare(reference, predicted, accuracy_funcs, details_dir)
Compare ==
    /\ \/ pc = "analyzed" /\ ~args.hfst_translit
       \/ pc = "latin"
    /\ LET r == compare(reference, predicted, args.details_dir, logs)
       IN  /\ results' = r.result
           /\ logs' = r.files
           /\ error' = r.error
           /\ pc' = IF r.error = "" THEN "done" ELSE "aborted"
    /\ UNCHANGED <<args, wordforms, reference, stdout, predicted,
                   analyzer_calls, translit_calls, translit_batch>>

\* table_results(results, format): the 'table' format divides by total
TableResults ==
    /\ pc = "done"
    /\ \E format \in {"table", "json", "json_indent"} :
          IF format = "table" /\ results[1].total = 0
          THEN pc' = "aborted" /\ error' = "ZeroDivisionError"
          ELSE pc' = "reported" /\ error' = error
    /\ UNCHANGED <<args, wordforms, reference, stdout, predicted, results, logs,
                   analyzer_calls, translit_calls, translit_batch>>

Next ==
    \/ ReadCorpus
    \/ ReadCorpusFails
    \/ ReplaceAliases
    \/ AnalyzerLookup
    \/ MakeLatin
    \/ Compare
    \/ TableResults

Spec == Init /\ [][Next]_vars

(***************************************************************************)
(* parse_apertium alone, on every short text over the characters of the    *)
(* apertium convention                                                     *)
(***************************************************************************)
ParseAlphabet == {"^", "$", "/", "a"}

Texts == SeqsUpTo(ParseAlphabet, MaxTextLen)

InitParse ==
    /\ pc = "lookup"
    /\ args = [details_dir |-> FALSE, hfst_translit |-> FALSE]
    /\ wordforms = <<>>
    /\ reference = <<>>
    /\ stdout \in Texts
    /\ predicted = <<>>
    /\ results = <<>>
    /\ logs = [f \in LogNames |-> <<>>]
    /\ analyzer_calls = 1
    /\ translit_calls = 0
    /\ translit_batch = <<>>
    /\ error = ""

\* return parse_apertium(stdout)
ParseOutput ==
    /\ pc = "lookup"
    /\ predicted' = parse_apertium(stdout)
    /\ pc' = "analyzed"
    /\ UNCHANGED <<args, wordforms, reference, stdout, results, logs,
                   analyzer_calls, translit_calls, translit_batch, error>>

NextParse == ParseOutput

SpecParse == InitParse /\ [][NextParse]_vars

(***************************************************************************)
(* Definitions used to state the properties                                *)
(***************************************************************************)
Brackets == {"<", ">"}

\* compare has returned a result
Returned == results # <<>>

\* the item is one compare scores: its first variant has no '*'
IsRecognized(item) ==
    item.out_variants # <<>> /\ ~Contains(item.out_variants[1], "*")

IsUnknown(item) ==
    item.out_variants # <<>> /\ Contains(item.out_variants[1], "*")

RecognizedItems == {i \in 1..Len(predicted) : IsRecognized(predicted[i])}

\* some variant of the item satisfies the metric against the reference
SomeVariantMatches(m, ref, item) ==
    \E j \in 1..Len(item.out_variants) :
        accuracy_funcs(m, ref, item.out_variants[j]) = "True"

\* the elements of a finite set of numbers, ascending
RECURSIVE Ascending(_)
Ascending(S) ==
    IF S = {} THEN <<>>
    ELSE LET m == CHOOSE x \in S : \A y \in S : x <= y
         IN  <<m>> \o Ascending(S \ {m})

RECURSIVE Flatten(_)
Flatten(ss) == IF ss = <<>> THEN <<>> ELSE Head(ss) \o Flatten(Tail(ss))

NoDuplicates(q) == \A a, b \in 1..Len(q) : q[a] = q[b] => a = b

\* a stem followed by at least one tag: [^<>]+(<[^<>]+>)+
WellFormed(t) ==
    \E p \in 2..Len(t) :
        /\ \A k \in 1..(p - 1) : t[k] \notin Brackets
        /\ t[p] = "<"
        /\ t[Len(t)] = ">"
        /\ \A k \in p..Len(t) :
              /\ t[k] = "<" => k < Len(t) /\ t[k + 1] \notin Brackets
              /\ t[k] = ">" => k = Len(t) \/ t[k + 1] = "<"
              /\ t[k] \notin Brackets => k < Len(t) /\ t[k + 1] # "<"

(***************************************************************************)
(* compare                                                                 *)
(***************************************************************************)
\* C1: whenever compare returns, total is the number N of corpus items (and
\* of predicted tokens), recognized is the number of items whose first
\* variant has no '*', so recognized <= total, with equality exactly when no
\* item's first variant has a '*'.
C1_TotalAndRecognized ==
    Returned =>
        /\ Len(reference) = Len(predicted)
        /\ results[1].total = Len(reference)
        /\ results[1].recognized = Cardinality(RecognizedItems)
        /\ results[1].recognized <= results[1].total
        /\ results[1].recognized = results[1].total
              <=> \A i \in 1..Len(predicted) : ~Contains(predicted[i].out_variants[1], "*")

\* compare returned for a corpus of two items, one unknown and one recognized
C1_Witness ==
    /\ Returned
    /\ results[1].total = 2
    /\ results[1].recognized = 1

\* C2: whenever compare returns, every metric's recognized count is the
\* global recognized count (unknown items excluded), its correct count is the
\* number of recognized items with at least one variant satisfying the
\* metric, each counted once; so correct <= recognized, the accuracy
\* correct/recognized lies in [0, 1], and it is 0 when recognized is 0.
C2_MetricCounts ==
    Returned =>
        \A m \in AccTypes :
            LET a == results[1].accuracy[m]
                hits == {i \in RecognizedItems :
                            SomeVariantMatches(m, reference[i], predicted[i])}
            IN  /\ a.recognized = results[1].recognized
                /\ a.recognized = Cardinality(RecognizedItems)
                /\ a.correct = Cardinality(hits)
                /\ a.correct <= a.recognized
                /\ a.acc.den > 0
                /\ 0 <= a.acc.num /\ a.acc.num <= a.acc.den
                /\ a.recognized = 0 => a.acc.num = 0
                /\ a.recognized > 0 => a.acc = Ratio(a.correct, a.recognized)

\* compare returned and scored an item whose second variant is the only one
\* equal to the reference, and both of whose variants have the reference's
\* part of speech
C2_Witness ==
    /\ Returned
    /\ \E i \in RecognizedItems :
          /\ Len(predicted[i].out_variants) = 2
          /\ match_exact(reference[i], predicted[i].out_variants[1]) = "False"
          /\ match_exact(reference[i], predicted[i].out_variants[2]) = "True"
          /\ match_pos(reference[i], predicted[i].out_variants[1]) = "True"
    /\ results[1].accuracy["exact_match"].correct >= 1
    /\ \E m \in AccTypes : results[1].accuracy[m].correct < results[1].recognized

\* the rows the details directory should hold in file m for the given items
ExpectedRows(m, idx) ==
    [k \in 1..Len(idx) |->
        <<predicted[idx[k]].input_str, reference[idx[k]], variants(predicted[idx[k]]),
          IF m = "unknown" THEN "UNKNOWN"
          ELSE IF SomeVariantMatches(m, reference[idx[k]], predicted[idx[k]])
               THEN "CORRECT" ELSE "FAIL">>]

\* C3: with a details directory, when compare returns each metric's log
\* holds exactly one row per recognized item, in item order, CORRECT if some
\* variant satisfies that metric and FAIL if none does, whatever the other
\* metrics found; the 'unknown' log holds exactly one UNKNOWN row per unknown
\* item, and the metric logs hold no row for them.
C3_OneRecordPerItemAndMetric ==
    Returned /\ args.details_dir =>
        /\ \A m \in AccTypes : logs[m] = ExpectedRows(m, Ascending(RecognizedItems))
        /\ logs["unknown"] =
              ExpectedRows("unknown", Ascending((1..Len(predicted)) \ RecognizedItems))

(***************************************************************************)
(* hfst_lookup, parse_apertium and make_latin                              *)
(***************************************************************************)
\* C4: a result is produced only if every transducer invocation of the run
\* gave as many tokens as it was given input strings: the analyzer lookup of
\* main (whose tokens are paired with the corpus by compare) and the
\* transliteration lookup of make_latin.
C4_CountMismatchAborts ==
    Returned =>
        /\ Len(predicted) = Len(wordforms)
        /\ args.hfst_translit => Len(parse_apertium(stdout)) = Len(translit_batch)

\* compare is the next step of main
CompareIsNext == (pc = "analyzed" /\ ~args.hfst_translit) \/ pc = "latin"

\* C5: every ParsedItem handed to compare has a non-empty variants list,
\* whatever text the analyzer printed and whatever the transliterator
\* returned (stated for the runs in which compare goes on to read the items:
\* the token list is as long as the corpus).
C5_VariantsNonEmpty ==
    CompareIsNext /\ Len(predicted) = Len(reference) => \A i \in 1..Len(predicted) : predicted[i].out_variants # <<>>

\* the '^...$' spans of a text: a '^', one or more characters other than
\* '^' and '$', and a '$'
IsSpan(text, i, j) ==
    /\ text[i] = "^" /\ text[j] = "$" /\ j > i + 1
    /\ \A k \in (i + 1)..(j - 1) : text[k] \notin {"^", "$"}

SpanStarts(text) ==
    {i \in 1..Len(text) : \E j \in 1..Len(text) : IsSpan(text, i, j)}

SpanEnd(text, i) == CHOOSE j \in 1..Len(text) : IsSpan(text, i, j)

\* the '/'-separated pieces of a span's content
Pieces(c) ==
    LET cuts == <<0>> \o Ascending({k \in 1..Len(c) : c[k] = "/"}) \o <<Len(c) + 1>>
    IN  [p \in 1..(Len(cuts) - 1) |-> SubSeq(c, cuts[p] + 1, cuts[p + 1] - 1)]

SpanToken(text, i) ==
    LET ps == Pieces(SubSeq(text, i + 1, SpanEnd(text, i) - 1))
    IN  ParsedItem(ps[1], SubSeq(ps, 2, Len(ps)))

SpanTokens(text) ==
    LET starts == Ascending(SpanStarts(text))
    IN  [n \in 1..Len(starts) |-> SpanToken(text, starts[n])]

\* the text with everything outside its spans removed
SpansOnly(text) ==
    LET starts == Ascending(SpanStarts(text))
    IN  Flatten([n \in 1..Len(starts) |-> SubSeq(text, starts[n], SpanEnd(text, starts[n]))])

dogs_line ==
    <<"^", "d", "o", "g", "s", "/", "d", "o", "g", "<", "n", ">", "<", "p", "l", ">",
      "/", "d", "o", "g", "s", "<", "n", ">", "<", "p", "l", ">", "$">>

\* C6: parse_apertium returns one token per '^...$' span of the text (a '^',
\* one or more characters other than '^' and '$', a '$'), in the order of
\* the spans; a token's input is the span's text before its first '/', its
\* variants the other '/'-separated pieces in order; removing the text
\* outside the spans leaves the tokens as they are; and the line
\* '^dogs/dog<n><pl>/dogs<n><pl>$' gives 'dogs' with its two variants.
C6_ParseSpans ==
    /\ pc = "analyzed" =>
          /\ predicted = SpanTokens(stdout)
          /\ parse_apertium(SpansOnly(stdout)) = predicted
    /\ parse_apertium(dogs_line) =
          << ParsedItem(<<"d", "o", "g", "s">>,
                 << <<"d", "o", "g", "<", "n", ">", "<", "p", "l", ">">>,
                    <<"d", "o", "g", "s", "<", "n", ">", "<", "p", "l", ">">> >>) >>

\* a text has been parsed that holds characters outside its one span, and
\* the span holds an input and two variants
C6_Witness ==
    /\ pc = "analyzed"
    /\ Len(predicted) = 1
    /\ Len(predicted[1].out_variants) = 2
    /\ predicted[1].input_str # <<>>
    /\ SpansOnly(stdout) # stdout

\* the forms the transliterator returned for a stem: those of the last token
\* that names it
ReturnedForms(toks, stem) ==
    LET named == {k \in 1..Len(toks) : toks[k].input_str = stem}
    IN  IF named = {} THEN <<>>
        ELSE toks[CHOOSE k \in named : \A n \in named : n <= k].out_variants

\* the variant with its stem, and nothing else, replaced by t
WithStem(v, t) ==
    LET m == first_stem_match(v, 1)
    IN  SubSeq(v, 1, m[1] - 1) \o t \o SubSeq(v, m[2], Len(v))

CrossProduct(vs, toks) ==
    Flatten([j \in 1..Len(vs) |->
                LET forms == ReturnedForms(toks, get_stem(vs[j]).value)
                IN  [k \in 1..Len(forms) |-> WithStem(vs[j], forms[k])]])

\* a step in which make_latin returns
MakeLatinReturns == pc = "analyzed" /\ pc' = "latin"

\* C7: when make_latin returns, the variants of every recognized item are,
\* in order, each original variant with its stem replaced by each form
\* returned for that stem, the rest of the variant (its tags) unchanged.
C7_StemOnlyRewritten ==
    [][MakeLatinReturns =>
          \A i \in 1..Len(predicted) :
              IsRecognized(predicted[i]) =>
                  predicted'[i].out_variants =
                      CrossProduct(predicted[i].out_variants, parse_apertium(stdout'))]_vars

\* C8: when make_latin returns, every unknown item is untouched and every
\* item the analyzer recognized is still one compare scores, so the number
\* of recognized items is unchanged.
C8_UnknownStatusUnchanged ==
    [][MakeLatinReturns =>
          /\ Len(predicted') = Len(predicted)
          /\ \A i \in 1..Len(predicted) :
                /\ IsUnknown(predicted[i]) => predicted'[i] = predicted[i]
                /\ IsRecognized(predicted[i]) => IsRecognized(predicted'[i])]_vars

\* the stems of the variants of the recognized items
StemsOf(items) ==
    UNION { {get_stem(items[i].out_variants[j]).value :
                 j \in 1..Len(items[i].out_variants)} :
            i \in {n \in 1..Len(items) : IsRecognized(items[n])} }

\* C9: a run starts the analyzer process and the transliterator process at
\* most once each; a call of make_latin that returns has started the
\* transliterator exactly once, on a batch that holds every stem of the
\* recognized items' variants, each exactly once.
C9_OneBatchedLookup ==
    /\ [](analyzer_calls <= 1 /\ translit_calls <= 1)
    /\ [][MakeLatinReturns =>
             /\ translit_calls = 0 /\ translit_calls' = 1
             /\ NoDuplicates(translit_batch')
             /\ {translit_batch'[k] : k \in 1..Len(translit_batch')} = StemsOf(predicted)]_vars

\* make_latin has returned for two recognized items that share their stem,
\* one lookup having been made for it
C9_Witness ==
    /\ pc = "latin"
    /\ translit_calls = 1
    /\ Len(translit_batch) = 1
    /\ Len(predicted) = 2
    /\ IsRecognized(predicted[1]) /\ IsRecognized(predicted[2])

(***************************************************************************)
(* The accuracy functions                                                  *)
(***************************************************************************)
Holds(m, t1, t2) == accuracy_funcs(m, t1, t2) = "True"

Correct(m) == results[1].accuracy[m].correct

\* the pairs (reference, variant) of the run
RunPairs ==
    UNION { {<<reference[i], predicted[n].out_variants[j]>> :
                 i \in 1..Len(reference), j \in 1..Len(predicted[n].out_variants)} :
            n \in 1..Len(predicted) }

\* C10: on well-formed analysis strings no accuracy function raises,
\* exact_match implies each other metric, unordered_tags_match implies
\* stem_match, and stem_and_pos_match holds exactly when stem_match and
\* pos_match do; and in every result of compare
\* correct(exact) <= correct(unordered) <= correct(stem) and
\* correct(exact) <= correct(stem_and_pos) <= min(correct(stem), correct(pos)).
C10_MetricsOrdered ==
    /\ \A p \in {q \in RunPairs : WellFormed(q[1]) /\ WellFormed(q[2])} :
          /\ \A m \in AccTypes : accuracy_funcs(m, p[1], p[2]) \in {"True", "False"}
          /\ Holds("exact_match", p[1], p[2]) =>
                \A m \in AccTypes : Holds(m, p[1], p[2])
          /\ Holds("unordered_tags_match", p[1], p[2]) => Holds("stem_match", p[1], p[2])
          /\ Holds("stem_and_pos_match", p[1], p[2])
                <=> Holds("stem_match", p[1], p[2]) /\ Holds("pos_match", p[1], p[2])
    /\ Returned =>
          /\ Correct("exact_match") <= Correct("unordered_tags_match")
          /\ Correct("unordered_tags_match") <= Correct("stem_match")
          /\ Correct("exact_match") <= Correct("stem_and_pos_match")
          /\ Correct("stem_and_pos_match") <= Correct("stem_match")
          /\ Correct("stem_and_pos_match") <= Correct("pos_match")

\* compare returned a result in which the metrics differ: the tags match
\* unordered but not exactly, and the stem matches where the part of speech
\* does not
C10_Witness ==
    /\ Returned
    /\ Correct("exact_match") < Correct("unordered_tags_match")
    /\ Correct("stem_and_pos_match") < Correct("stem_match")
    /\ \E p \in RunPairs :
          /\ WellFormed(p[1]) /\ WellFormed(p[2])
          /\ Holds("unordered_tags_match", p[1], p[2])
          /\ ~Holds("exact_match", p[1], p[2])

====
